---- MODULE Spec2Model ----
(***************************************************************************)
(* OfflineU frontend: the course hierarchy and progress model.             *)
(*                                                                         *)
(* Strings are sequences of one-character strings, so that the string      *)
(* operations of the source (String.replace with a string pattern, with a  *)
(* global regular expression, with an anchored regular expression) are     *)
(* computed character by character, as the JavaScript engine computes them.*)
(***************************************************************************)
EXTENDS Integers, Sequences, FiniteSets, TLC

VARIABLES
    lessonPathIn,    \* SpecKey: lessonItem.path handed to a key derivation
    titleIn,         \* SpecKey: lessonItem.title
    coursePathIn,    \* SpecKey: course.path (coursePath prop)
    keyOut,          \* SpecKey: the key each derivation site produced, or NoKey
    tree,            \* the scanned course: [parent, name, lessons] (Course.root_node)
    result,          \* SpecTree, SpecPaths, SpecOrder: what the last tree operation returned
    store,           \* the progress store: key -> [completed, progress_seconds]
    stats,           \* LessonView: stats state (CourseStats of the last course info)
    isCompleted,     \* LessonView: isCompleted state (header button)
    lessonPath,      \* LessonView: the route parameter, key of the lesson shown
    currentTime,     \* mediaRef.current.currentTime, in seconds
    lastSaveTime,    \* LessonView: lastSaveTime ref
    tasks,           \* the saveProgress / markLessonComplete calls started so far
    batches,         \* the markFolderComplete calls started so far
    names,           \* SpecCompare: the names handed to the comparator
    cmp,             \* SpecCompare: what the comparator returned for them
    app,             \* AppContent: view, checkingCourse, localStorage offlineu_load_mode
    library,         \* LibraryPage and its FolderBrowser: browserOpen, loadingPath,
                     \* currentPath, loadingCourse
    loads            \* the loadCourse calls started so far

keyVars == <<lessonPathIn, titleIn, coursePathIn, keyOut>>

treeVars == <<tree, result>>

viewVars == <<store, stats, isCompleted, lessonPath, currentTime, lastSaveTime,
              tasks, batches>>

cmpVars == <<names, cmp>>

appVars == <<app, library, loads>>

vars == <<lessonPathIn, titleIn, coursePathIn, keyOut, tree, result,
          store, stats, isCompleted, lessonPath, currentTime, lastSaveTime,
          tasks, batches, names, cmp, app, library, loads>>

----------------------------------------------------------------------------
(* Bounds of the string inputs.                                            *)

MaxPathLen == 3
MaxRootLen == 2
MaxTitleLen == 2

PathChars == {"a", "/", "\\"}
TitleChars == {"a", " "}

SeqsUpTo(S, n) == UNION {[1..k -> S] : k \in 0..n}

----------------------------------------------------------------------------
(* JavaScript string operations used by the key derivations.               *)

\* s.replace(/\\/g, '/')
ReplaceBackslashes(s) == [i \in 1..Len(s) |-> IF s[i] = "\\" THEN "/" ELSE s[i]]

\* s.replace(/ /g, '_')
ReplaceSpaces(s) == [i \in 1..Len(s) |-> IF s[i] = " " THEN "_" ELSE s[i]]

\* s.replace(/^\//, '')
StripLeadingSlash(s) == IF Len(s) > 0 /\ s[1] = "/" THEN Tail(s) ELSE s

\* s.replace(/^[\\\/]/, '')
StripLeadingSeparator(s) ==
    IF Len(s) > 0 /\ s[1] \in {"/", "\\"} THEN Tail(s) ELSE s

\* p occurs in s at position i (1-based)
OccursAt(s, p, i) ==
    /\ i + Len(p) - 1 <= Len(s)
    /\ \A j \in 1..Len(p) : s[i + j - 1] = p[j]

\* s.replace(p, '') with a string pattern: only the first occurrence of p,
\* wherever it is in s, is removed; s is returned unchanged when p does not
\* occur.  The empty pattern matches at the start and removes nothing.
RemoveFirst(s, p) ==
    LET hits == {i \in 1..Len(s) : OccursAt(s, p, i)}
    IN  IF Len(p) = 0 \/ hits = {} THEN s
        ELSE LET i == CHOOSE h \in hits : \A g \in hits : h <= g
             IN  SubSeq(s, 1, i - 1) \o SubSeq(s, i + Len(p), Len(s))

----------------------------------------------------------------------------
(* The four places that derive a lesson key.                               *)

\* buildLessonFullPath without its .replace(/^\//, ''): the separator that
\* followed the course path stays at the head of the key
buildLessonFullPath_KeepLeadingSlash(path, title, coursePath) ==
    LET normalizedLessonPath == ReplaceBackslashes(path)
        normalizedCoursePath == ReplaceBackslashes(coursePath)
        relativePath == RemoveFirst(normalizedLessonPath, normalizedCoursePath)
    IN  relativePath \o <<"/">> \o ReplaceSpaces(title)

\* buildLessonFullPath with its / /g kept in a shared regular expression
\* object whose lastIndex survives a call: once keys have been derived, the
\* spaces of the title are no longer replaced
buildLessonFullPath_SharedRegex(path, title, coursePath) ==
    LET normalizedLessonPath == ReplaceBackslashes(path)
        normalizedCoursePath == ReplaceBackslashes(coursePath)
        relativePath ==
            StripLeadingSlash(RemoveFirst(normalizedLessonPath, normalizedCoursePath))
    IN  relativePath \o <<"/">> \o
            (IF result.op = "none" THEN ReplaceSpaces(title) ELSE title)

\* SidebarNode.buildLessonFullPath
buildLessonFullPath(path, title, coursePath) ==
    LET normalizedLessonPath == ReplaceBackslashes(path)
        normalizedCoursePath == ReplaceBackslashes(coursePath)
        relativePath ==
            StripLeadingSlash(RemoveFirst(normalizedLessonPath, normalizedCoursePath))
    IN  relativePath \o <<"/">> \o ReplaceSpaces(title)

\* SidebarNode, lesson list: the inline fullPath used for routing
sidebarInlineFullPath(path, title, coursePath) ==
    LET relativePath ==
            StripLeadingSeparator(ReplaceBackslashes(RemoveFirst(path, coursePath)))
    IN  relativePath \o <<"/">> \o ReplaceSpaces(title)

\* CourseDashboard TreeNode, lesson onClick
treeNodeLessonKey(path, title, coursePath) ==
    LET relativePath ==
            ReplaceBackslashes(StripLeadingSeparator(RemoveFirst(path, coursePath)))
    IN  relativePath \o <<"/">> \o ReplaceSpaces(title)

\* LearningPathDashboard.navigateToLesson(subCoursePath, lessonTitle)
navigateToLessonKey(subCoursePath, lessonTitle, coursePath) ==
    LET relativePath ==
            StripLeadingSeparator(ReplaceBackslashes(RemoveFirst(subCoursePath, coursePath)))
    IN  relativePath \o <<"/">> \o ReplaceSpaces(lessonTitle)

\* the comparator has not been called
NoCompare == names = <<>> /\ cmp = <<>>

\* a LibraryPage as it mounts, its FolderBrowser with it
FreshLibrary ==
    [browserOpen |-> FALSE, loadingPath |-> "null", currentPath |-> "",
     loadingCourse |-> "null"]

\* AppContent, LibraryPage and FolderBrowser are not part of the specification
NoApp ==
    /\ app = [view |-> "library", checkingCourse |-> FALSE, load_mode |-> "null",
              found |-> FALSE]
    /\ library = FreshLibrary
    /\ loads = <<>>

Sites == {"build", "inline", "tree", "nav"}

\* no key derived yet (a real key always holds the "/" before the title)
NoKey == <<>>

----------------------------------------------------------------------------
(* The course tree (DirectoryNode, LessonItem).                            *)
(*                                                                         *)
(* Nodes are numbered in the order the scanner inserted them, the root is  *)
(* node 0 and a node's parent has a smaller number, so the graph is a tree.*)
(* A lesson is identified by its position in tree.lessons; node.lessons is *)
(* the subsequence of the lessons whose folder is the node.                *)

MaxNodes == 4
MaxLessons == 3

Nodes == 0..(MaxNodes - 1)

NoTree == [parent |-> <<>>, name |-> <<>>, lessons |-> <<>>]
NoResult == [op |-> "none"]

\* no lesson view is mounted
NoView ==
    /\ store = <<>> /\ stats = [none |-> TRUE] /\ isCompleted = FALSE
    /\ lessonPath = <<>> /\ currentTime = 0 /\ lastSaveTime = 0
    /\ tasks = <<>> /\ batches = <<>>

DigitChar(i) == <<"0", "1", "2", "3", "4", "5", "6", "7", "8", "9">>[i + 1]

\* DirectoryNode.name
NodeName(n) == IF n = 0 THEN <<"c">> ELSE tree.name[n]

\* folder names whose order is the order the scanner lists the folders in
PlainName(n) == <<"d", DigitChar(n)>>

PlainNames == [n \in 1..(MaxNodes - 1) |-> PlainName(n)]

\* Course.path: the path of the root node
TreeCoursePath == <<"/", "c">>

\* DirectoryNode.path
RECURSIVE NodePath(_)
NodePath(n) ==
    IF n = 0 THEN TreeCoursePath
    ELSE NodePath(tree.parent[n]) \o <<"/">> \o NodeName(n)

\* LessonItem.path: the scanner records the folder that holds the lesson
LessonPath(i) == NodePath(tree.lessons[i].folder)

RECURSIVE AscendingSeq(_)
AscendingSeq(S) ==
    IF S = {} THEN <<>>
    ELSE LET m == CHOOSE x \in S : \A y \in S : x <= y
         IN  <<m>> \o AscendingSeq(S \ {m})

\* Object.values(node.children): the children in insertion order
ChildrenOf(n) == AscendingSeq({c \in Nodes \ {0} : tree.parent[c] = n})

\* node.lessons
LessonsOf(n) ==
    AscendingSeq({i \in 1..Len(tree.lessons) : tree.lessons[i].folder = n})

\* SidebarNode, TreeNode: hasChildren
hasChildren(n) == Len(ChildrenOf(n)) > 0 \/ Len(LessonsOf(n)) > 0

RECURSIVE Flatten(_)
Flatten(ss) == IF ss = <<>> THEN <<>> ELSE Head(ss) \o Flatten(Tail(ss))

\* getAllLessonsFromNode, without the recursion into the children
getAllLessonsFromNode_DirectOnly(n) == LessonsOf(n)

\* LessonView: getAllLessonsFromNode(node)
RECURSIVE getAllLessonsFromNode(_)
getAllLessonsFromNode(n) ==
    LessonsOf(n) \o
    Flatten([k \in 1..Len(ChildrenOf(n)) |-> getAllLessonsFromNode(ChildrenOf(n)[k])])

\* LearningPathDashboard: getAllLessons(node)
RECURSIVE getAllLessons(_)
getAllLessons(n) ==
    LessonsOf(n) \o
    Flatten([k \in 1..Len(ChildrenOf(n)) |-> getAllLessons(ChildrenOf(n)[k])])

\* getAllLessonPaths that stops at the node's own lessons
getAllLessonPaths_DirectOnly(n) ==
    [k \in 1..Len(LessonsOf(n)) |->
        buildLessonFullPath(LessonPath(LessonsOf(n)[k]),
                            tree.lessons[LessonsOf(n)[k]].title, TreeCoursePath)]

\* SidebarNode.getAllLessonPaths(targetNode)
RECURSIVE getAllLessonPaths(_)
getAllLessonPaths(n) ==
    [k \in 1..Len(LessonsOf(n)) |->
        buildLessonFullPath(LessonPath(LessonsOf(n)[k]),
                            tree.lessons[LessonsOf(n)[k]].title, TreeCoursePath)]
    \o Flatten([k \in 1..Len(ChildrenOf(n)) |-> getAllLessonPaths(ChildrenOf(n)[k])])

\* the number of completed lessons of a list: lessons.filter(l => l.completed).length
CompletedCount(ls) == Cardinality({k \in 1..Len(ls) : tree.lessons[ls[k]].completed})

\* the percentage without the guard on an empty list: 0/0
Percentage_Unguarded(completed, total) == [num |-> completed * 100, den |-> total]

\* total > 0 ? (completed / total) * 100 : 0, as an exact fraction num/den
Percentage(completed, total) ==
    IF total > 0 THEN [num |-> completed * 100, den |-> total]
    ELSE [num |-> 0, den |-> 1]

\* LessonView: the subStats of the active sub-course
subStats(child) ==
    LET subLessons == getAllLessonsFromNode(child)
        completedCount == CompletedCount(subLessons)
    IN  [total_lessons |-> Len(subLessons),
         completed_lessons |-> completedCount,
         completion_percentage |-> Percentage(completedCount, Len(subLessons))]

\* allCompleted that is vacuously true of an empty folder
allCompleted_Vacuous(n) ==
    \A k \in 1..Len(getAllLessonsFromNode(n)) :
        tree.lessons[getAllLessonsFromNode(n)[k]].completed

\* SidebarNode: allCompleted
allCompleted(n) ==
    LET allLessonsInNode == getAllLessonsFromNode(n)
    IN  /\ Len(allLessonsInNode) > 0
        /\ \A k \in 1..Len(allLessonsInNode) : tree.lessons[allLessonsInNode[k]].completed

----------------------------------------------------------------------------
(* The natural order comparator and the learning-path decomposition.       *)

Digits == {"0", "1", "2", "3", "4", "5", "6", "7", "8", "9"}

DigitValue(ch) == CHOOSE v \in 0..9 : DigitChar(v) = ch

\* name.match(/^(\d+)/)?.[1]: the leading run of decimal digits, "" if none
RECURSIVE LeadingDigits(_)
LeadingDigits(name) ==
    IF name # <<>> /\ Head(name) \in Digits
    THEN <<Head(name)>> \o LeadingDigits(Tail(name))
    ELSE <<>>

RECURSIVE DecimalValue(_)
DecimalValue(ds) ==
    IF ds = <<>> THEN 0
    ELSE DecimalValue(SubSeq(ds, 1, Len(ds) - 1)) * 10 + DigitValue(ds[Len(ds)])

\* the prefix given to a name without leading digits: '999999'
NoPrefixValue == 999999

\* parseInt(name.match(/^(\d+)/)?.[1] || '999999')
NumericPrefix(name) ==
    IF LeadingDigits(name) = <<>> THEN NoPrefixValue
    ELSE DecimalValue(LeadingDigits(name))

Letters == <<"a", "b", "c", "d", "e", "f", "g", "h", "i", "j", "k", "l", "m",
            "n", "o", "p", "q", "r", "s", "t", "u", "v", "w", "x", "y", "z">>

Capitals == <<"A", "B", "C", "D", "E", "F", "G", "H", "I", "J", "K", "L", "M",
             "N", "O", "P", "Q", "R", "S", "T", "U", "V", "W", "X", "Y", "Z">>

IndexIn(seq, ch) == CHOOSE i \in 1..Len(seq) : seq[i] = ch

InSeq(seq, ch) == \E i \in 1..Len(seq) : seq[i] = ch

\* U+00E9, e with acute as one code point, and U+0301, the combining acute
AcuteE == "e'"
CombiningAcute == "'"

\* canonical decomposition, which the collation applies before it compares
RECURSIVE Decompose(_)
Decompose(name) ==
    IF name = <<>> THEN <<>>
    ELSE (IF Head(name) = AcuteE THEN <<"e", CombiningAcute>> ELSE <<Head(name)>>)
            \o Decompose(Tail(name))

\* primary weight of the root collation: white space, punctuation, digits,
\* letters whatever their case; a combining mark has none (0)
PrimaryWeight(ch) ==
    IF ch = CombiningAcute THEN 0
    ELSE IF ch = " " THEN 1
    ELSE IF ch = "_" THEN 2
    ELSE IF ch \in Digits THEN 3 + DigitValue(ch)
    ELSE IF InSeq(Letters, ch) THEN 13 + IndexIn(Letters, ch)
    ELSE 13 + IndexIn(Capitals, ch)

\* secondary weight: the accent
SecondaryWeight(ch) == IF ch = CombiningAcute THEN 2 ELSE 1

\* tertiary weight: lower case before upper case
TertiaryWeight(ch) == IF InSeq(Capitals, ch) THEN 2 ELSE 1

SelectNonZero(ws) == SelectSeq(ws, LAMBDA w : w # 0)

\* the sort key of one level
LevelKey(name, level) ==
    LET d == Decompose(name)
    IN  IF level = 1 THEN SelectNonZero([i \in 1..Len(d) |-> PrimaryWeight(d[i])])
        ELSE IF level = 2 THEN [i \in 1..Len(d) |-> SecondaryWeight(d[i])]
        ELSE [i \in 1..Len(d) |-> TertiaryWeight(d[i])]

RECURSIVE KeyCompare(_, _)
KeyCompare(x, y) ==
    IF x = <<>> THEN (IF y = <<>> THEN 0 ELSE -1)
    ELSE IF y = <<>> THEN 1
    ELSE IF Head(x) < Head(y) THEN -1
    ELSE IF Head(x) > Head(y) THEN 1
    ELSE KeyCompare(Tail(x), Tail(y))

\* a.localeCompare(b) with no locale and no options: the root collation at
\* its default strength, level by level; -1, 0 or 1
localeCompare(a, b) ==
    IF KeyCompare(LevelKey(a, 1), LevelKey(b, 1)) # 0
    THEN KeyCompare(LevelKey(a, 1), LevelKey(b, 1))
    ELSE IF KeyCompare(LevelKey(a, 2), LevelKey(b, 2)) # 0
    THEN KeyCompare(LevelKey(a, 2), LevelKey(b, 2))
    ELSE KeyCompare(LevelKey(a, 3), LevelKey(b, 3))

\* a comparator that leaves out the numeric prefixes
NaturalCompare_Lexical(a, b) == localeCompare(a, b)

\* a comparator that leaves out the tie-break on the names
NaturalCompare_PrefixOnly(a, b) == NumericPrefix(a) - NumericPrefix(b)

\* the comparator handed to sort(): numA !== numB ? numA - numB : localeCompare
NaturalCompare(a, b) ==
    IF NumericPrefix(a) # NumericPrefix(b)
    THEN NumericPrefix(a) - NumericPrefix(b)
    ELSE localeCompare(a, b)

\* Array.prototype.sort is stable: x goes behind every element that does not
\* compare greater than it
RECURSIVE InsertNode(_, _)
InsertNode(sorted, x) ==
    IF sorted = <<>> THEN <<x>>
    ELSE IF NaturalCompare(NodeName(Head(sorted)), NodeName(x)) > 0
         THEN <<x>> \o sorted
         ELSE <<Head(sorted)>> \o InsertNode(Tail(sorted), x)

\* nodes.sort((a, b) => ...) by name
RECURSIVE SortNodes(_)
SortNodes(ns) ==
    IF ns = <<>> THEN <<>>
    ELSE InsertNode(SortNodes(SubSeq(ns, 1, Len(ns) - 1)), ns[Len(ns)])

\* TreeNode: the child directories as rendered, sorted by name
treeNodeChildren(n) == SortNodes(ChildrenOf(n))

\* TreeNode: the lessons as rendered, node.lessons.map(...)
treeNodeLessons(n) == LessonsOf(n)

RECURSIVE InsertLesson(_, _)
InsertLesson(sorted, x) ==
    IF sorted = <<>> THEN <<x>>
    ELSE IF NaturalCompare(tree.lessons[Head(sorted)].title, tree.lessons[x].title) > 0
         THEN <<x>> \o sorted
         ELSE <<Head(sorted)>> \o InsertLesson(Tail(sorted), x)

\* [...node.lessons].sort((a, b) => ...) by title
RECURSIVE SortLessons(_)
SortLessons(ls) ==
    IF ls = <<>> THEN <<>>
    ELSE InsertLesson(SortLessons(SubSeq(ls, 1, Len(ls) - 1)), ls[Len(ls)])

\* SidebarNode: the child folders as rendered, sorted by name
sidebarNodeChildren(n) == SortNodes(ChildrenOf(n))

\* SidebarNode: the lessons as rendered, sorted by title
sidebarNodeLessons(n) == SortLessons(LessonsOf(n))

\* the displayName of a plain LessonItem
Undefined == <<"undefined">>

\* a LessonItem of the tree as the record the views read
LessonItemOf(i) ==
    [title |-> tree.lessons[i].title,
     displayName |-> Undefined,
     path |-> LessonPath(i),
     lesson_type |-> tree.lessons[i].lesson_type,
     completed |-> tree.lessons[i].completed]

\* the lesson type of a folder taken from its first lesson
primaryLessonType_FirstLesson(lessonsInFolder) ==
    IF lessonsInFolder = <<>> THEN "text"
    ELSE tree.lessons[lessonsInFolder[1]].lesson_type

\* getChildFoldersAsLessons: lessonType, the primary lesson type of a folder
primaryLessonType(lessonsInFolder) ==
    LET typeIn(t) == \E k \in 1..Len(lessonsInFolder) :
                        tree.lessons[lessonsInFolder[k]].lesson_type = t
    IN  IF typeIn("video") THEN "video"
        ELSE IF typeIn("audio") THEN "audio"
        ELSE IF typeIn("quiz") THEN "quiz"
        ELSE "text"

\* the entry getChildFoldersAsLessons builds for one child folder; <<>> when
\* the folder holds no lesson (firstLesson is undefined)
FolderEntry(child) ==
    LET lessonsInFolder == getAllLessons(child)
        folderCompleted ==
            /\ Len(lessonsInFolder) > 0
            /\ \A k \in 1..Len(lessonsInFolder) :
                    tree.lessons[lessonsInFolder[k]].completed
        lessonType == primaryLessonType(lessonsInFolder)
        videos == {k \in 1..Len(lessonsInFolder) :
                        tree.lessons[lessonsInFolder[k]].lesson_type = "video"}
        firstLesson ==
            IF videos # {}
            THEN lessonsInFolder[CHOOSE k \in videos : \A j \in videos : k <= j]
            ELSE lessonsInFolder[1]
    IN  IF lessonsInFolder = <<>> THEN <<>>
        ELSE <<[title |-> tree.lessons[firstLesson].title,
                displayName |-> NodeName(child),
                path |-> LessonPath(firstLesson),
                lesson_type |-> lessonType,
                completed |-> folderCompleted]>>

\* LearningPathDashboard: getChildFoldersAsLessons(node)
getChildFoldersAsLessons(n) ==
    LET sortedChildren == SortNodes(ChildrenOf(n))
        folderLessons ==
            Flatten([k \in 1..Len(sortedChildren) |-> FolderEntry(sortedChildren[k])])
    IN  IF Len(folderLessons) = 0
        THEN [k \in 1..Len(LessonsOf(n)) |-> LessonItemOf(LessonsOf(n)[k])]
        ELSE folderLessons

\* a SubCourseInfo that counts only the lessons directly inside the child
SubCourseInfoOf_DirectOnly(child) ==
    LET allLessons == LessonsOf(child)
        completed == CompletedCount(allLessons)
    IN  [node |-> child,
         name |-> NodeName(child),
         path |-> NodePath(child),
         totalLessons |-> Len(allLessons),
         completedLessons |-> completed,
         progress |-> Percentage(completed, Len(allLessons)),
         lessons |-> getChildFoldersAsLessons(child)]

\* the SubCourseInfo extractSubCourses pushes for one child of the root
SubCourseInfoOf(child) ==
    LET allLessons == getAllLessons(child)
        completed == CompletedCount(allLessons)
    IN  [node |-> child,
         name |-> NodeName(child),
         path |-> NodePath(child),
         totalLessons |-> Len(allLessons),
         completedLessons |-> completed,
         progress |-> Percentage(completed, Len(allLessons)),
         lessons |-> getChildFoldersAsLessons(child)]

\* extractSubCourses without the final sort
extractSubCourses_Unsorted(rootNode) ==
    [k \in 1..Len(ChildrenOf(rootNode)) |-> SubCourseInfoOf(ChildrenOf(rootNode)[k])]

\* LearningPathDashboard: extractSubCourses(rootNode, coursePath)
extractSubCourses(rootNode) ==
    LET sorted == SortNodes(ChildrenOf(rootNode))
    IN  [k \in 1..Len(sorted) |-> SubCourseInfoOf(sorted[k])]

----------------------------------------------------------------------------
(* SpecTree, SpecPaths: the tree operations applied to bounded trees.      *)
(* The lessons of a bounded tree are listed folder by folder.              *)

LessonTypes == {"video", "audio", "text", "quiz", "mixed"}

\* the lesson type the scanner gave lesson i of the bounded trees
ScannedType(i) == <<"text", "video", "audio", "quiz", "mixed">>[((i - 1) % 5) + 1]

PlainTitle(i) == <<"l", DigitChar(i)>>

\* two titles that differ only in a space against an underscore
TreeTitles == {<<"a", " ", "b">>, <<"a", "_", "b">>}

\* every tree shape over the nodes: the parent of a node is an earlier node
TreeShapes == {p \in [1..(MaxNodes - 1) -> Nodes] : \A n \in 1..(MaxNodes - 1) : p[n] < n}

InitTree ==
    /\ lessonPathIn = <<>> /\ titleIn = <<>> /\ coursePathIn = <<>>
    /\ keyOut = [s \in Sites |-> NoKey]
    /\ NoCompare
    /\ NoApp
    /\ \E p \in TreeShapes, k \in 0..MaxLessons :
        \E fs \in [1..k -> Nodes], cs \in [1..k -> BOOLEAN] :
            /\ \A i \in 1..(k - 1) : fs[i] <= fs[i + 1]
            /\ tree = [parent |-> p, name |-> PlainNames,
                       lessons |-> [i \in 1..k |->
                            [folder |-> fs[i], title |-> PlainTitle(i),
                             lesson_type |-> ScannedType(i), completed |-> cs[i]]]]
    /\ result = NoResult
    /\ NoView

InitPaths ==
    /\ lessonPathIn = <<>> /\ titleIn = <<>> /\ coursePathIn = <<>>
    /\ keyOut = [s \in Sites |-> NoKey]
    /\ NoCompare
    /\ NoApp
    /\ \E p \in TreeShapes, k \in 0..MaxLessons :
        \E fs \in [1..k -> Nodes], ts \in [1..k -> TreeTitles] :
            /\ \A i \in 1..(k - 1) : fs[i] <= fs[i + 1]
            /\ tree = [parent |-> p, name |-> PlainNames,
                       lessons |-> [i \in 1..k |->
                            [folder |-> fs[i], title |-> ts[i],
                             lesson_type |-> ScannedType(i), completed |-> FALSE]]]
    /\ result = NoResult
    /\ NoView

\* LessonView computes the stats of a child of the root (the active sub-course)
ShowSubCourseStats(child) ==
    /\ result.op = "none"
    /\ tree.parent[child] = 0
    /\ result' = [op |-> "subStats", node |-> child, value |-> subStats(child)]
    /\ UNCHANGED <<keyVars, cmpVars, appVars, tree, viewVars>>

\* the sidebar renders a nested folder with its check mark
RenderSidebarNode(n) ==
    /\ result.op = "none"
    /\ result' = [op |-> "allCompleted", node |-> n, value |-> allCompleted(n)]
    /\ UNCHANGED <<keyVars, cmpVars, appVars, tree, viewVars>>

\* LearningPathDashboard: the sub-courses computed when the course info arrives
ExtractSubCourses ==
    /\ result.op = "none"
    /\ result' = [op |-> "subCourses", node |-> 0, value |-> extractSubCourses(0)]
    /\ UNCHANGED <<keyVars, cmpVars, appVars, tree, viewVars>>

\* markFolderComplete collects the keys of a folder
CollectLessonPaths(n) ==
    /\ result.op = "none"
    /\ result' = [op |-> "lessonPaths", node |-> n, value |-> getAllLessonPaths(n)]
    /\ UNCHANGED <<keyVars, cmpVars, appVars, tree, viewVars>>

NextTree ==
    \/ \E c \in Nodes \ {0} : ShowSubCourseStats(c)
    \/ \E n \in Nodes \ {0} : RenderSidebarNode(n)
    \/ ExtractSubCourses

\* the sidebar renders again (the course is loaded again, unchanged) and
\* derives the keys of the same folder a second time
CollectLessonPathsAgain(n) ==
    /\ result.op = "lessonPaths"
    /\ result.node = n
    /\ result' = [op |-> "lessonPathsAgain", node |-> n, first |-> result.value,
                  value |-> getAllLessonPaths(n)]
    /\ UNCHANGED <<keyVars, cmpVars, appVars, tree, viewVars>>

NextPaths ==
    \/ \E n \in Nodes \ {0} : CollectLessonPaths(n)
    \/ \E n \in Nodes \ {0} : CollectLessonPathsAgain(n)

SpecTree == InitTree /\ [][NextTree]_vars

SpecPaths == InitPaths /\ [][NextPaths]_vars

----------------------------------------------------------------------------
(* SpecOrder: the views and the decomposition applied to bounded trees     *)
(* whose folders and lessons the scanner lists in any order.               *)

OrderLessons == 2

\* names and titles that the comparator, string order and the order of the
\* scan all rank differently
PoolName(k) ==
    IF k = 1 THEN <<"1", "0", "a">>
    ELSE IF k = 2 THEN <<"2", "a">>
    ELSE <<"b", DigitChar(k)>>

InitOrder ==
    /\ lessonPathIn = <<>> /\ titleIn = <<>> /\ coursePathIn = <<>>
    /\ keyOut = [s \in Sites |-> NoKey]
    /\ NoCompare
    /\ NoApp
    /\ \E p \in TreeShapes, nm \in Permutations(1..(MaxNodes - 1)), k \in 0..OrderLessons :
        \E fs \in [1..k -> Nodes], tp \in Permutations(1..k), ts \in [1..k -> LessonTypes] :
            /\ \A i \in 1..(k - 1) : fs[i] <= fs[i + 1]
            /\ tree = [parent |-> p,
                       name |-> [n \in 1..(MaxNodes - 1) |-> PoolName(nm[n])],
                       lessons |-> [i \in 1..k |->
                            [folder |-> fs[i], title |-> PoolName(tp[i]),
                             lesson_type |-> ts[i], completed |-> FALSE]]]
    /\ result = NoResult
    /\ NoView

\* the course dashboard renders the TreeNode of a folder
ListTreeNode(n) ==
    /\ result.op = "none"
    /\ hasChildren(n)
    /\ result' = [op |-> "treeNode", node |-> n,
                  value |-> [children |-> treeNodeChildren(n),
                             lessons |-> treeNodeLessons(n)]]
    /\ UNCHANGED <<keyVars, cmpVars, appVars, tree, viewVars>>

\* the lesson view renders the SidebarNode of a folder
ListSidebarNode(n) ==
    /\ result.op = "none"
    /\ hasChildren(n)
    /\ result' = [op |-> "sidebarNode", node |-> n,
                  value |-> [children |-> sidebarNodeChildren(n),
                             lessons |-> sidebarNodeLessons(n)]]
    /\ UNCHANGED <<keyVars, cmpVars, appVars, tree, viewVars>>

\* a view flattens the lessons of a folder
CollectLessons(n) ==
    /\ result.op = "none"
    /\ result' = [op |-> "allLessons", node |-> n,
                  value |-> [dashboard |-> getAllLessons(n),
                             sidebar |-> getAllLessonsFromNode(n)]]
    /\ UNCHANGED <<keyVars, cmpVars, appVars, tree, viewVars>>

NextOrder ==
    \/ \E n \in Nodes : ListTreeNode(n)
    \/ \E n \in Nodes : ListSidebarNode(n)
    \/ \E n \in Nodes : CollectLessons(n)
    \/ ExtractSubCourses

SpecOrder == InitOrder /\ [][NextOrder]_vars

----------------------------------------------------------------------------
(* SpecKey: the key derivations applied to bounded inputs.                 *)

InitKey ==
    /\ lessonPathIn \in SeqsUpTo(PathChars, MaxPathLen)
    /\ coursePathIn \in SeqsUpTo(PathChars, MaxRootLen)
    /\ titleIn \in SeqsUpTo(TitleChars, MaxTitleLen)
    /\ keyOut = [s \in Sites |-> NoKey]
    /\ NoCompare
    /\ NoApp
    /\ tree = NoTree
    /\ result = NoResult
    /\ NoView

ResolveBuild ==
    /\ keyOut["build"] = NoKey
    /\ keyOut' = [keyOut EXCEPT
                    !["build"] = buildLessonFullPath(lessonPathIn, titleIn, coursePathIn)]
    /\ UNCHANGED <<lessonPathIn, titleIn, coursePathIn, treeVars, viewVars, cmpVars,
                   appVars>>

ResolveInline ==
    /\ keyOut["inline"] = NoKey
    /\ keyOut' = [keyOut EXCEPT
                    !["inline"] = sidebarInlineFullPath(lessonPathIn, titleIn, coursePathIn)]
    /\ UNCHANGED <<lessonPathIn, titleIn, coursePathIn, treeVars, viewVars, cmpVars,
                   appVars>>

ResolveTree ==
    /\ keyOut["tree"] = NoKey
    /\ keyOut' = [keyOut EXCEPT
                    !["tree"] = treeNodeLessonKey(lessonPathIn, titleIn, coursePathIn)]
    /\ UNCHANGED <<lessonPathIn, titleIn, coursePathIn, treeVars, viewVars, cmpVars,
                   appVars>>

ResolveNav ==
    /\ keyOut["nav"] = NoKey
    /\ keyOut' = [keyOut EXCEPT
                    !["nav"] = navigateToLessonKey(lessonPathIn, titleIn, coursePathIn)]
    /\ UNCHANGED <<lessonPathIn, titleIn, coursePathIn, treeVars, viewVars, cmpVars,
                   appVars>>

NextKey == ResolveBuild \/ ResolveInline \/ ResolveTree \/ ResolveNav

SpecKey == InitKey /\ [][NextKey]_vars

----------------------------------------------------------------------------
(* SpecCompare: the comparator applied to bounded names.                   *)

MaxDigits == 2

PrefixDigits == {"0", "1", "2"}

\* the prefix that spells the value given to unnumbered names, and the next one
LongPrefixes == {<<"9", "9", "9", "9", "9", "9">>, <<"1", "0", "0", "0", "0", "0", "0">>}

NameTails == {<<>>, <<"a">>, <<"B">>, <<AcuteE>>, <<"e", CombiningAcute>>}

\* names of folders and titles of lessons: a run of digits, then a tail
Names ==
    {p \o t : p \in SeqsUpTo(PrefixDigits, MaxDigits) \cup LongPrefixes, t \in NameTails}
        \ {<<>>}

InitCompare ==
    /\ lessonPathIn = <<>> /\ titleIn = <<>> /\ coursePathIn = <<>>
    /\ keyOut = [s \in Sites |-> NoKey]
    /\ tree = NoTree
    /\ result = NoResult
    /\ NoView
    /\ NoApp
    /\ names \in [a : Names, b : Names, c : Names]
    /\ cmp = <<>>

\* sort() calls the comparator on the names, in either order of the arguments
CompareNames ==
    /\ cmp = <<>>
    /\ cmp' = [ab |-> NaturalCompare(names.a, names.b),
               ba |-> NaturalCompare(names.b, names.a),
               bc |-> NaturalCompare(names.b, names.c),
               ac |-> NaturalCompare(names.a, names.c)]
    /\ UNCHANGED <<keyVars, treeVars, viewVars, appVars, names>>

NextCompare == CompareNames

SpecCompare == InitCompare /\ [][NextCompare]_vars

----------------------------------------------------------------------------
(* The lesson view: LessonView with its sidebar, the progress store and    *)
(* the requests in flight between them.                                    *)
(*                                                                         *)
(* In Spec the variable tree is the course state of LessonView: the tree   *)
(* with the completed flags of the last course info that was applied.      *)

\* the most writes started in one behaviour
MaxTasks == 2
\* the lessons of the course shown in the lesson view
ViewLessons == 2
\* the playback positions a timeupdate event can report: 0, 16, ...
MaxMediaTicks == 1
TickSeconds == 16

\* handleTimeUpdate saves when more than 15 seconds passed since the last save
SaveInterval == 15

\* getCourseInfo() resolved to null, or no response yet
Null == [none |-> TRUE]

StartsWith(s, p) == Len(p) <= Len(s) /\ SubSeq(s, 1, Len(p)) = p

\* the key under which the progress store keeps lesson i, and by which the
\* course info overlays its record on the tree
StoredKeyOf(i) ==
    LET rest == SubSeq(LessonPath(i), Len(TreeCoursePath) + 1, Len(LessonPath(i)))
    IN  StripLeadingSlash(ReplaceBackslashes(rest)) \o <<"/">>
            \o ReplaceSpaces(tree.lessons[i].title)

NoRecord == [completed |-> FALSE, progress_seconds |-> 0]

RecordOf(st, key) == IF key \in DOMAIN st THEN st[key] ELSE NoRecord

\* GET /api/course/info: the tree with the completed flags of the store, and
\* the stats of the whole course
courseInfo(st) ==
    LET flags == [i \in 1..Len(tree.lessons) |-> RecordOf(st, StoredKeyOf(i)).completed]
        done == Cardinality({i \in 1..Len(tree.lessons) : flags[i]})
    IN  [completed |-> flags,
         stats |-> [total_lessons |-> Len(tree.lessons),
                    completed_lessons |-> done,
                    completion_percentage |-> Percentage(done, Len(tree.lessons))]]

\* POST /api/progress: the store keeps the record under the key it is given
persist(st, task) ==
    (task.lesson_path :>
        [completed |-> task.completed, progress_seconds |-> task.progress_seconds])
    @@ st

\* setCourse(data.course): the displayed tree takes the flags of the response
withFlags(flags) ==
    [tree EXCEPT !.lessons =
        [i \in 1..Len(tree.lessons) |-> [tree.lessons[i] EXCEPT !.completed = flags[i]]]]

\* LessonView: childRelPath of a child of the root
childRelPath(child) ==
    StripLeadingSeparator(ReplaceBackslashes(RemoveFirst(NodePath(child), TreeCoursePath)))

\* LessonView: activeSubCourse, the node handed to the sidebar
activeSubCourse ==
    LET children == ChildrenOf(0)
        hits == {k \in 1..Len(children) :
                    \/ StartsWith(lessonPath, childRelPath(children[k]) \o <<"/">>)
                    \/ StartsWith(lessonPath,
                                  ReplaceSpaces(childRelPath(children[k])) \o <<"/">>)}
    IN  IF hits = {} THEN 0
        ELSE children[CHOOSE k \in hits : \A j \in hits : k <= j]

\* LessonView: sidebarStats, the stats shown above the sidebar
sidebarStats == IF activeSubCourse = 0 THEN stats ELSE subStats(activeSubCourse)

RECURSIVE DescendsFrom(_, _)
DescendsFrom(m, n) == m = n \/ (m # 0 /\ DescendsFrom(tree.parent[m], n))

\* the folders the sidebar renders with a header (depth > 0)
SidebarFolders ==
    {n \in Nodes : n # activeSubCourse /\ DescendsFrom(n, activeSubCourse) /\ hasChildren(n)}

\* the lessons the sidebar lists
SidebarLessons ==
    {i \in 1..Len(tree.lessons) : DescendsFrom(tree.lessons[i].folder, activeSubCourse)}

\* the lesson the view shows
CurrentLessons == {i \in 1..Len(tree.lessons) : StoredKeyOf(i) = lessonPath}

\* the view renders a <video> or <audio> element (mediaRef.current is set):
\* the lesson shown has a video_file or an audio_file
HasMedia ==
    \E i \in CurrentLessons : tree.lessons[i].lesson_type \in {"video", "audio"}

Room(k) == Len(tasks) + k <= MaxTasks

\* a call of updateProgress whose fetch has been issued
NewTask(op, key, completed, seconds, refresh, batch) ==
    [op |-> op, lesson_path |-> key, completed |-> completed,
     progress_seconds |-> seconds, refresh |-> refresh, batch |-> batch,
     pc |-> "posting", persisted |-> FALSE, fetched |-> FALSE, data |-> Null]

\* the lesson view after its two load effects have run
Init ==
    /\ lessonPathIn = <<>> /\ titleIn = <<>> /\ coursePathIn = <<>>
    /\ keyOut = [s \in Sites |-> NoKey]
    /\ NoCompare
    /\ NoApp
    /\ result = NoResult
    /\ \E cs \in [1..ViewLessons -> BOOLEAN] :
            tree = [parent |-> [n \in 1..(MaxNodes - 1) |-> n - 1],
                    name |-> PlainNames,
                    lessons |-> [i \in 1..ViewLessons |->
                        [folder |-> i + 1, title |-> PlainTitle(i),
                         lesson_type |-> ScannedType(i), completed |-> cs[i]]]]
    /\ store = [k \in {StoredKeyOf(i) : i \in 1..ViewLessons} |->
                    [completed |-> \E i \in 1..ViewLessons :
                                        StoredKeyOf(i) = k /\ tree.lessons[i].completed,
                     progress_seconds |-> 0]]
    /\ stats = courseInfo(store).stats
    /\ \E cur \in 1..ViewLessons :
            /\ lessonPath = StoredKeyOf(cur)
            /\ isCompleted = tree.lessons[cur].completed
    /\ currentTime = 0 /\ lastSaveTime = 0
    /\ tasks = <<>> /\ batches = <<>>

\* LessonView.saveProgress(progressSeconds, completed): the part up to the
\* await of updateProgress; the refresh follows only if completed
saveProgress(op, progressSeconds, completed) ==
    tasks' = Append(tasks, NewTask(op, lessonPath, completed, progressSeconds,
                                   completed, 0))

\* LessonView.toggleCompletion
ToggleCompletion ==
    /\ Room(1)
    /\ isCompleted' = ~isCompleted
    /\ saveProgress("toggle", IF HasMedia THEN currentTime ELSE 0, ~isCompleted)
    /\ UNCHANGED <<keyVars, cmpVars, appVars, treeVars, store, stats, lessonPath, currentTime,
                   lastSaveTime, batches>>

\* LessonView.handleTimeUpdate, on a timeupdate event at position t
HandleTimeUpdate(t) ==
    /\ HasMedia
    /\ t > currentTime
    /\ currentTime' = t
    /\ IF t - lastSaveTime > SaveInterval
       THEN /\ Room(1)
            /\ saveProgress("timeupdate", t, FALSE)
            /\ lastSaveTime' = t
       ELSE UNCHANGED <<tasks, lastSaveTime>>
    /\ UNCHANGED <<keyVars, cmpVars, appVars, treeVars, store, stats, isCompleted, lessonPath,
                   batches>>

\* LessonView.handleEnded
HandleEnded ==
    /\ HasMedia
    /\ Room(1)
    /\ saveProgress("ended", currentTime, TRUE)
    /\ isCompleted' = TRUE
    /\ UNCHANGED <<keyVars, cmpVars, appVars, treeVars, store, stats, lessonPath, currentTime,
                   lastSaveTime, batches>>

\* LessonView.markLessonComplete(lessonPath, completed): the part up to the
\* await of updateProgress, for the keys handed over by the sidebar
markLessonComplete(keys, completed, batch) ==
    tasks' = tasks \o [k \in 1..Len(keys) |->
                        NewTask("mark", keys[k], completed, 0, TRUE, batch)]

\* the sidebar's context menu of lesson i: Mark as Complete / Incomplete
MarkLessonFromSidebar(i) ==
    /\ i \in SidebarLessons
    /\ Room(1)
    /\ markLessonComplete(
            <<sidebarInlineFullPath(LessonPath(i), tree.lessons[i].title, TreeCoursePath)>>,
            ~tree.lessons[i].completed, 0)
    /\ UNCHANGED <<keyVars, cmpVars, appVars, treeVars, store, stats, isCompleted, lessonPath,
                   currentTime, lastSaveTime, batches>>

\* markFolderComplete that awaits each update before it starts the next: only
\* the first write is issued, the others wait for their turn
MarkFolderComplete_Sequential(n) ==
    /\ n \in SidebarFolders
    /\ LET lessonPaths == getAllLessonPaths(n)
           completed == ~allCompleted(n)
       IN  /\ Len(lessonPaths) > 0
           /\ Room(Len(lessonPaths))
           /\ batches' = Append(batches, [node |-> n, keys |-> lessonPaths,
                                          completed |-> completed])
           /\ tasks' = tasks \o [k \in 1..Len(lessonPaths) |->
                [NewTask("mark", lessonPaths[k], completed, 0, TRUE, Len(batches) + 1)
                    EXCEPT !.pc = IF k = 1 THEN "posting" ELSE "queued"]]
    /\ UNCHANGED <<keyVars, cmpVars, appVars, treeVars, store, stats, isCompleted, lessonPath,
                   currentTime, lastSaveTime>>

\* SidebarNode.markFolderComplete(!allCompleted), from the folder's context
\* menu: lessonPaths.map(...) starts every markLessonComplete, and with it every
\* fetch, before Promise.all is awaited
MarkFolderComplete(n) ==
    /\ n \in SidebarFolders
    /\ LET lessonPaths == getAllLessonPaths(n)
           completed == ~allCompleted(n)
       IN  /\ Len(lessonPaths) > 0
           /\ Room(Len(lessonPaths))
           /\ batches' = Append(batches, [node |-> n, keys |-> lessonPaths,
                                          completed |-> completed])
           /\ markLessonComplete(lessonPaths, completed, Len(batches) + 1)
    /\ UNCHANGED <<keyVars, cmpVars, appVars, treeVars, store, stats, isCompleted, lessonPath,
                   currentTime, lastSaveTime>>

TaskIds == 1..Len(tasks)

BatchTasks(b) == {t \in TaskIds : tasks[t].batch = b}

\* what the promise of markFolderComplete settles with: Promise.all rejects
\* with the error of the first call that rejected, else resolves to an array
\* of undefined; neither names a key
batchOutcome(b) ==
    IF \E t \in BatchTasks(b) : tasks[t].pc = "rejected"
    THEN [status |-> "rejected", failedKeys |-> {}]
    ELSE IF \A t \in BatchTasks(b) : tasks[t].pc = "done"
    THEN [status |-> "resolved", failedKeys |-> {}]
    ELSE [status |-> "pending", failedKeys |-> {}]

\* the store receives write t and keeps it
StorePersists(t) ==
    /\ tasks[t].pc = "posting"
    /\ store' = persist(store, tasks[t])
    /\ tasks' = [tasks EXCEPT ![t].pc = "posted", ![t].persisted = TRUE]
    /\ UNCHANGED <<keyVars, cmpVars, appVars, treeVars, stats, isCompleted, lessonPath, currentTime,
                   lastSaveTime, batches>>

\* the store receives write t and answers with an error status: nothing is
\* kept, and fetch resolves all the same
StoreRefuses(t) ==
    /\ tasks[t].pc = "posting"
    /\ tasks' = [tasks EXCEPT ![t].pc = "posted"]
    /\ UNCHANGED <<keyVars, cmpVars, appVars, treeVars, store, stats, isCompleted, lessonPath,
                   currentTime, lastSaveTime, batches>>

\* write t never reaches the store: fetch rejects, and so do updateProgress
\* and the saveProgress / markLessonComplete call that awaits it
WriteFails(t) ==
    /\ tasks[t].pc = "posting"
    /\ tasks' = [tasks EXCEPT ![t].pc = "rejected"]
    /\ UNCHANGED <<keyVars, cmpVars, appVars, treeVars, store, stats, isCompleted, lessonPath,
                   currentTime, lastSaveTime, batches>>

\* updateProgress resolves: the caller goes on to getCourseInfo(), or returns
\* (saveProgress with completed = false)
AfterUpdateProgress(t) ==
    /\ tasks[t].pc = "posted"
    /\ tasks' = [tasks EXCEPT ![t].pc = IF tasks[t].refresh THEN "getting" ELSE "done",
                              ![t].fetched = tasks[t].refresh]
    /\ UNCHANGED <<keyVars, cmpVars, appVars, treeVars, store, stats, isCompleted, lessonPath,
                   currentTime, lastSaveTime, batches>>

\* the server answers the course info request of t from the store as it is now
ServeCourseInfo(t) ==
    /\ tasks[t].pc = "getting"
    /\ tasks' = [tasks EXCEPT ![t].pc = "got", ![t].data = courseInfo(store)]
    /\ UNCHANGED <<keyVars, cmpVars, appVars, treeVars, store, stats, isCompleted, lessonPath,
                   currentTime, lastSaveTime, batches>>

\* the server answers with an error status: getCourseInfo resolves to null
RefuseCourseInfo(t) ==
    /\ tasks[t].pc = "getting"
    /\ tasks' = [tasks EXCEPT ![t].pc = "got", ![t].data = Null]
    /\ UNCHANGED <<keyVars, cmpVars, appVars, treeVars, store, stats, isCompleted, lessonPath,
                   currentTime, lastSaveTime, batches>>

\* the course info request of t gets no response: fetch rejects, and so do
\* getCourseInfo and the call that awaits it; nothing is displayed anew
CourseInfoFails(t) ==
    /\ tasks[t].pc = "getting"
    /\ tasks' = [tasks EXCEPT ![t].pc = "rejected"]
    /\ UNCHANGED <<keyVars, cmpVars, appVars, treeVars, store, stats, isCompleted, lessonPath,
                   currentTime, lastSaveTime, batches>>

\* getCourseInfo resolves: if (data) { setCourse(data.course); setStats(data.stats) }
AfterGetCourseInfo(t) ==
    /\ tasks[t].pc = "got"
    /\ IF tasks[t].data # Null
       THEN /\ tree' = withFlags(tasks[t].data.completed)
            /\ stats' = tasks[t].data.stats
       ELSE UNCHANGED <<tree, stats>>
    /\ tasks' = [tasks EXCEPT ![t].pc = "done"]
    /\ UNCHANGED <<keyVars, cmpVars, appVars, result, store, isCompleted, lessonPath, currentTime,
                   lastSaveTime, batches>>

Next ==
    \/ ToggleCompletion
    \/ \E k \in 1..MaxMediaTicks : HandleTimeUpdate(k * TickSeconds)
    \/ HandleEnded
    \/ \E i \in 1..ViewLessons : MarkLessonFromSidebar(i)
    \/ \E n \in Nodes : MarkFolderComplete(n)
    \/ \E t \in TaskIds : StorePersists(t)
    \/ \E t \in TaskIds : StoreRefuses(t)
    \/ \E t \in TaskIds : WriteFails(t)
    \/ \E t \in TaskIds : AfterUpdateProgress(t)
    \/ \E t \in TaskIds : ServeCourseInfo(t)
    \/ \E t \in TaskIds : RefuseCourseInfo(t)
    \/ \E t \in TaskIds : CourseInfoFails(t)
    \/ \E t \in TaskIds : AfterGetCourseInfo(t)

Spec == Init /\ [][Next]_vars

----------------------------------------------------------------------------
(* AppContent, LibraryPage and FolderBrowser: choosing and loading a       *)
(* course (SpecApp).                                                       *)

\* the most loadCourse calls started in one behaviour
MaxLoads == 2

LoadModes == {"course", "learning_path"}

\* the views whose routes hold a dashboard and the lesson view
Dashboards == {"course", "learning_path"}

\* setView(mode === 'learning_path' ? 'learning_path' : 'course')
viewOf(mode) == IF mode = "learning_path" THEN "learning_path" ELSE "course"

\* what the folder browser can show: '' before the first listing, the list of
\* drives, a folder
BrowserPaths == {"Select a Drive", "/c"}

\* the entries of the library; load_mode may be missing
LibraryItems ==
    {[path |-> "/c", load_mode |-> "null"], [path |-> "/p", load_mode |-> "learning_path"]}

\* what POST /api/course/load can come to: success with a course_name, success
\* without one, success = false, or a rejected fetch / unreadable body
Answers == {"ok", "ok_unnamed", "refused", "threw"}

\* result.success read without a look at the answer
resultSuccess_Ignored(answer) == TRUE

\* result.success
resultSuccess(answer) == answer \in {"ok", "ok_unnamed"}

\* <LibraryPage> is rendered
LibraryMounted == ~app.checkingCourse /\ app.view = "library"

\* FolderBrowser: canSelect
canSelect == library.currentPath # "" /\ library.currentPath # "Select a Drive"

\* FolderBrowser: the disabled attribute of both load buttons
ButtonsDisabled == ~canSelect \/ library.loadingCourse # "null"

\* a call of loadCourse whose fetch has been issued
NewLoad(origin, path, mode) ==
    [origin |-> origin, path |-> path, mode |-> mode, pc |-> "loading",
     answer |-> "pending", orphan |-> FALSE, selected |-> FALSE, alerted |-> FALSE]

\* the variables no step of SpecApp changes
appFrame == <<keyVars, cmpVars, tree, store, stats, currentTime, lastSaveTime,
              tasks, batches>>

\* the application starts: the course on disk, nothing mounted but AppContent
InitApp ==
    /\ lessonPathIn = <<>> /\ titleIn = <<>> /\ coursePathIn = <<>>
    /\ keyOut = [s \in Sites |-> NoKey]
    /\ NoCompare
    /\ result = NoResult
    /\ tree = [parent |-> [n \in 1..(MaxNodes - 1) |-> IF n <= 2 THEN 0 ELSE n - 2],
               name |-> PlainNames,
               lessons |-> [i \in 1..MaxLessons |->
                    [folder |-> IF i = 1 THEN 0
                                ELSE IF i < MaxNodes THEN i ELSE MaxNodes - 1,
                     title |-> PlainTitle(i),
                     lesson_type |-> ScannedType(i), completed |-> i = 1]]]
    /\ store = [k \in {StoredKeyOf(i) : i \in 1..MaxLessons} |->
                    [completed |-> \E i \in 1..MaxLessons :
                                        StoredKeyOf(i) = k /\ tree.lessons[i].completed,
                     progress_seconds |-> 0]]
    /\ stats = courseInfo(store).stats
    /\ lessonPath = <<>> /\ isCompleted = FALSE
    /\ currentTime = 0 /\ lastSaveTime = 0
    /\ tasks = <<>> /\ batches = <<>>
    /\ \E m \in LoadModes \cup {"null"} :
            app = [view |-> "library", checkingCourse |-> TRUE, load_mode |-> m,
                   found |-> FALSE]
    /\ library = FreshLibrary
    /\ loads = <<>>

\* AppContent mount effect: getCourseInfo() resolved, with a course or null
CourseCheck(found) ==
    /\ app.checkingCourse
    /\ app' = [app EXCEPT !.checkingCourse = FALSE, !.found = found,
                          !.view = IF found THEN viewOf(app.load_mode) ELSE @]
    /\ UNCHANGED <<appFrame, result, lessonPath, isCompleted, library, loads>>

\* the routes of view v replace those of the current view: a LibraryPage that
\* is unmounted loses its state, and the calls it started go on without it
Remount(v, ls) ==
    /\ library' = IF v # app.view THEN FreshLibrary ELSE library
    /\ loads' = [k \in DOMAIN ls |-> [ls[k] EXCEPT !.orphan = @ \/ v # app.view]]

\* AppContent.handleCourseSelected(mode), but for the routes
handleCourseSelected(mode) ==
    /\ app' = [app EXCEPT !.load_mode = mode, !.view = viewOf(mode)]
    /\ lessonPath' = <<>> /\ isCompleted' = FALSE

\* AppContent.handleShowStats, from the library's Statistics button
handleShowStats ==
    /\ LibraryMounted /\ ~library.browserOpen
    /\ app' = [app EXCEPT !.view = "stats"]
    /\ Remount("stats", loads)
    /\ UNCHANGED <<appFrame, result, lessonPath, isCompleted>>

\* AppContent.handleBackToLibrary, from the stats page
handleBackToLibrary ==
    /\ app.view = "stats"
    /\ app' = [app EXCEPT !.view = "library"]
    /\ Remount("library", loads)
    /\ UNCHANGED <<appFrame, result, lessonPath, isCompleted>>

\* AppContent.handleReset, from a dashboard
handleReset ==
    /\ ~app.checkingCourse /\ app.view \in Dashboards
    /\ app' = [app EXCEPT !.view = "library", !.load_mode = "null"]
    /\ lessonPath' = <<>> /\ isCompleted' = FALSE
    /\ Remount("library", loads)
    /\ UNCHANGED <<appFrame, result>>

\* a dashboard is rendered and aggregates the tree
ShowDashboard ==
    /\ ~app.checkingCourse /\ app.view \in Dashboards
    /\ lessonPath = <<>>
    /\ result' = [op |-> "dashboard", view |-> app.view,
                  total |-> Len(getAllLessons(0)),
                  completed |-> CompletedCount(getAllLessons(0))]
    /\ UNCHANGED <<appFrame, appVars, lessonPath, isCompleted>>

\* the route /lesson/* of a dashboard view: LessonView shows lesson i
OpenLesson(i) ==
    /\ ~app.checkingCourse /\ app.view \in Dashboards
    /\ lessonPath' = StoredKeyOf(i)
    /\ isCompleted' = tree.lessons[i].completed
    /\ UNCHANGED <<appFrame, appVars, result>>

\* LibraryPage: the Add Course button, setBrowserOpen(true)
OpenBrowser ==
    /\ LibraryMounted /\ ~library.browserOpen
    /\ library' = [library EXCEPT !.browserOpen = TRUE]
    /\ UNCHANGED <<appFrame, result, lessonPath, isCompleted, app, loads>>

\* the dialog is dismissed: onOpenChange(false)
CloseBrowser ==
    /\ LibraryMounted /\ library.browserOpen
    /\ library' = [library EXCEPT !.browserOpen = FALSE]
    /\ UNCHANGED <<appFrame, result, lessonPath, isCompleted, app, loads>>

\* FolderBrowser.loadFolder resolved with a listing: setCurrentPath(data.current_path)
loadFolder(p) ==
    /\ LibraryMounted /\ library.browserOpen
    /\ library' = [library EXCEPT !.currentPath = p]
    /\ UNCHANGED <<appFrame, result, lessonPath, isCompleted, app, loads>>

\* LibraryPage.handleFolderSelect(path, mode) up to the await of loadCourse,
\* called by a FolderBrowser that has become fb
handleFolderSelect(fb, path, mode) ==
    /\ library' = [fb EXCEPT !.loadingPath = path]
    /\ loads' = Append(loads, NewLoad("browser", path, mode))

\* FolderBrowser.handleSelectAsCourse, from the Load as Course button
handleSelectAsCourse ==
    /\ LibraryMounted /\ library.browserOpen
    /\ ~ButtonsDisabled
    /\ canSelect
    /\ Len(loads) < MaxLoads
    /\ handleFolderSelect([library EXCEPT !.loadingCourse = "course"],
                          library.currentPath, "course")
    /\ UNCHANGED <<appFrame, result, lessonPath, isCompleted, app>>

\* FolderBrowser.handleSelectAsLearningPath, from the Load as Learning Path
\* button
handleSelectAsLearningPath ==
    /\ LibraryMounted /\ library.browserOpen
    /\ ~ButtonsDisabled
    /\ canSelect
    /\ Len(loads) < MaxLoads
    /\ handleFolderSelect([library EXCEPT !.loadingCourse = "learning_path"],
                          library.currentPath, "learning_path")
    /\ UNCHANGED <<appFrame, result, lessonPath, isCompleted, app>>

\* LibraryPage.handleItemClick(item) up to the await of loadCourse
handleItemClick(item) ==
    /\ LibraryMounted /\ ~library.browserOpen
    /\ library.loadingPath # item.path
    /\ Len(loads) < MaxLoads
    /\ library' = [library EXCEPT !.loadingPath = item.path]
    /\ loads' = Append(loads, NewLoad("item", item.path,
                        IF item.load_mode = "null" THEN "course" ELSE item.load_mode))
    /\ UNCHANGED <<appFrame, result, lessonPath, isCompleted, app>>

\* the loader answers call l, or the call fails
LoaderAnswers(l, answer) ==
    /\ loads[l].pc = "loading"
    /\ loads' = [loads EXCEPT ![l].pc = "answered", ![l].answer = answer]
    /\ UNCHANGED <<appFrame, result, lessonPath, isCompleted, app, library>>

\* call l returns to its caller: selected says that onCourseSelected(mode) is
\* called, alerted that the failure alert is shown, closes that
\* setBrowserOpen(false) is called; finally setLoadingPath(null)
Finish(l, selected, alerted, closes) ==
    LET v == IF selected THEN viewOf(loads[l].mode) ELSE app.view
        done == [loads EXCEPT ![l].pc = "done", ![l].selected = selected,
                              ![l].alerted = alerted]
    IN  /\ IF v # app.view
           THEN Remount(v, done)
           ELSE /\ loads' = done
                /\ library' = IF loads[l].orphan THEN library
                              ELSE [library EXCEPT
                                      !.browserOpen = IF closes THEN FALSE ELSE @,
                                      !.loadingPath = "null"]
        /\ IF selected THEN handleCourseSelected(loads[l].mode)
           ELSE UNCHANGED <<app, lessonPath, isCompleted>>
        /\ UNCHANGED <<appFrame, result>>

\* loadCourse resolved or rejected: the rest of handleFolderSelect up to the
\* await of addToLibrary, or the rest of handleItemClick
AfterLoadCourse(l) ==
    /\ loads[l].pc = "answered"
    /\ IF loads[l].origin = "browser"
       THEN IF /\ loads[l].answer # "threw"
               /\ resultSuccess(loads[l].answer)
               /\ loads[l].answer # "ok_unnamed"
            THEN /\ loads' = [loads EXCEPT ![l].pc = "adding"]
                 /\ UNCHANGED <<appFrame, result, lessonPath, isCompleted, app, library>>
            ELSE Finish(l, FALSE, TRUE, TRUE)
       ELSE Finish(l, loads[l].answer # "threw" /\ resultSuccess(loads[l].answer),
                   FALSE, FALSE)

\* addToLibrary resolved: setBrowserOpen(false); onCourseSelected(mode)
AfterAddToLibrary(l) ==
    /\ loads[l].pc = "adding"
    /\ Finish(l, TRUE, FALSE, TRUE)

\* addToLibrary rejected: the catch block of handleFolderSelect
AddToLibraryFails(l) ==
    /\ loads[l].pc = "adding"
    /\ Finish(l, FALSE, TRUE, TRUE)

NextApp ==
    \/ \E found \in BOOLEAN : CourseCheck(found)
    \/ handleShowStats
    \/ handleBackToLibrary
    \/ handleReset
    \/ ShowDashboard
    \/ \E i \in 1..MaxLessons : OpenLesson(i)
    \/ OpenBrowser
    \/ CloseBrowser
    \/ \E p \in BrowserPaths : loadFolder(p)
    \/ handleSelectAsCourse
    \/ handleSelectAsLearningPath
    \/ \E item \in LibraryItems : handleItemClick(item)
    \/ \E l \in DOMAIN loads, answer \in Answers : LoaderAnswers(l, answer)
    \/ \E l \in DOMAIN loads : AfterLoadCourse(l)
    \/ \E l \in DOMAIN loads : AfterAddToLibrary(l)
    \/ \E l \in DOMAIN loads : AddToLibraryFails(l)

SpecApp == InitApp /\ [][NextApp]_vars

----------------------------------------------------------------------------
(* Claims about the key derivations (SpecKey).                             *)

IsPrefix(p, s) == Len(p) <= Len(s) /\ SubSeq(s, 1, Len(p)) = p

Range(s) == {s[i] : i \in 1..Len(s)}

AfterRoot == SubSeq(lessonPathIn, Len(coursePathIn) + 1, Len(lessonPathIn))

\* the key as the contract words it: prefix removed, separators normalised,
\* one leading separator removed, "/" and the underscored title appended
ExpectedKey ==
    LET unified == [i \in 1..Len(AfterRoot) |->
                        IF AfterRoot[i] = "\\" THEN "/" ELSE AfterRoot[i]]
        rel == IF unified # <<>> /\ Head(unified) = "/" THEN Tail(unified) ELSE unified
        leaf == [i \in 1..Len(titleIn) |-> IF titleIn[i] = " " THEN "_" ELSE titleIn[i]]
    IN  rel \o <<"/">> \o leaf

\* C1: for a lesson path that starts with the course path, the key derived by
\* buildLessonFullPath and by the dashboard TreeNode is the path without the
\* course path prefix, backslashes turned into slashes, one leading separator
\* removed, then "/" and the title with every space replaced by "_".
C1_KeyIsCanonical ==
    IsPrefix(coursePathIn, lessonPathIn) =>
        /\ keyOut["build"] # NoKey => keyOut["build"] = ExpectedKey
        /\ keyOut["tree"] # NoKey => keyOut["tree"] = ExpectedKey

C1_Witness ==
    /\ IsPrefix(coursePathIn, lessonPathIn)
    /\ coursePathIn # <<>>
    /\ AfterRoot # <<>> /\ Head(AfterRoot) = "\\"
    /\ " " \in Range(titleIn)
    /\ keyOut["build"] = ExpectedKey
    /\ keyOut["tree"] = ExpectedKey

\* C2: every place that derives a lesson key yields the same key for the same
\* (lesson path, title, course path), whatever mix of "/" and "\" the two
\* paths use.
C2_AllSitesAgree ==
    (\A s \in Sites : keyOut[s] # NoKey) =>
        \A s, t \in Sites : keyOut[s] = keyOut[t]

\* the value a failed derivation would hand back
MalformedTree == <<"MalformedTree">>

\* C3: a lesson path that is not anchored at the course path never yields a
\* key: the derivation fails with MalformedTree.
C3_UnanchoredPathFails ==
    ~IsPrefix(coursePathIn, lessonPathIn) =>
        \A s \in {"build", "nav"} : keyOut[s] \in {NoKey, MalformedTree}

----------------------------------------------------------------------------
(* Claims about the tree operations (SpecPaths, SpecTree).                 *)

RECURSIVE InSubtree(_, _)
InSubtree(m, n) == m = n \/ (m # 0 /\ InSubtree(tree.parent[m], n))

\* the lessons at any depth below node n
SubtreeLessons(n) ==
    {i \in 1..Len(tree.lessons) : InSubtree(tree.lessons[i].folder, n)}

CompletedIn(S) == {i \in S : tree.lessons[i].completed}

\* the folder names from the root down to n, each followed by "/"
RECURSIVE RelativeFolder(_)
RelativeFolder(n) ==
    IF n = 0 THEN <<>> ELSE RelativeFolder(tree.parent[n]) \o NodeName(n) \o <<"/">>

\* the canonical key of lesson i
CanonicalKeyOf(i) ==
    RelativeFolder(tree.lessons[i].folder) \o
    [k \in 1..Len(tree.lessons[i].title) |->
        IF tree.lessons[i].title[k] = " " THEN "_" ELSE tree.lessons[i].title[k]]

KeysAreOnePerLesson(keys, S) ==
    /\ Len(keys) = Cardinality(S)
    /\ \A i \in S :
          Cardinality({k \in 1..Len(keys) : keys[k] = CanonicalKeyOf(i)})
            = Cardinality({j \in S : CanonicalKeyOf(j) = CanonicalKeyOf(i)})
    /\ \A k \in 1..Len(keys) : \E i \in S : keys[k] = CanonicalKeyOf(i)

PairwiseDistinct(keys) ==
    \A j, k \in 1..Len(keys) : j # k => keys[j] # keys[k]

\* C4 as claimed: getAllLessonPaths returns N keys, one per lesson of the
\* subtree, each the lesson's canonical key, and the N keys are pairwise
\* distinct.
C4_KeysDistinct ==
    result.op = "lessonPaths" =>
        /\ KeysAreOnePerLesson(result.value, SubtreeLessons(result.node))
        /\ PairwiseDistinct(result.value)

\* C4 (amended): getAllLessonPaths returns N keys counted with repetition, one
\* per lesson of the subtree at any depth, each the lesson's canonical key;
\* the keys are pairwise distinct whenever the canonical keys of the lessons
\* of the subtree are.
C4_OneKeyPerLesson ==
    result.op = "lessonPaths" =>
        LET S == SubtreeLessons(result.node)
        IN  /\ KeysAreOnePerLesson(result.value, S)
            /\ (\A i, j \in S : i # j => CanonicalKeyOf(i) # CanonicalKeyOf(j))
                    => PairwiseDistinct(result.value)

C4_Witness ==
    /\ result.op = "lessonPaths"
    /\ Len(result.value) = 3
    /\ \E i \in SubtreeLessons(result.node) : tree.lessons[i].folder # result.node
    /\ ~PairwiseDistinct(result.value)
    /\ Cardinality({result.value[k] : k \in 1..Len(result.value)}) = 2

PercentageIs(p, completed, total) ==
    /\ p.den > 0
    /\ total > 0 => p.num * total = completed * 100 * p.den
    /\ total = 0 => p.num = 0
    /\ 0 <= p.num /\ p.num <= 100 * p.den

AggregateIs(total, completed, percentage, n) ==
    /\ total = Cardinality(SubtreeLessons(n))
    /\ completed = Cardinality(CompletedIn(SubtreeLessons(n)))
    /\ 0 <= completed /\ completed <= total
    /\ PercentageIs(percentage, completed, total)

\* C9: the aggregate of a node counts the lessons of its whole subtree, the
\* completed ones among them, and the percentage completed/total*100, which is
\* 0 for an empty node (no division by zero); 0 <= completed <= total and
\* 0 <= percentage <= 100.
C9_AggregateCorrect ==
    /\ result.op = "subStats" =>
            AggregateIs(result.value.total_lessons, result.value.completed_lessons,
                        result.value.completion_percentage, result.node)
    /\ result.op = "subCourses" =>
            \A k \in 1..Len(result.value) :
                AggregateIs(result.value[k].totalLessons,
                            result.value[k].completedLessons,
                            result.value[k].progress, result.value[k].node)

C9_Witness ==
    /\ result.op = "subStats"
    /\ result.value.total_lessons = 3
    /\ result.value.completed_lessons = 2
    /\ result.value.completion_percentage = [num |-> 200, den |-> 3]
    /\ \E i \in SubtreeLessons(result.node) : tree.lessons[i].folder # result.node

FullyComplete(n) ==
    /\ SubtreeLessons(n) # {}
    /\ \A i \in SubtreeLessons(n) : tree.lessons[i].completed

\* the entries of a display list that stand for a child folder
FolderEntriesOf(sub) ==
    {k \in 1..Len(sub.lessons) : sub.lessons[k].displayName # Undefined}

\* C10: the sidebar check mark of a folder, and the completed flag of a
\* learning-path display entry of a child folder, are set exactly when the
\* folder's subtree has at least one lesson and all its lessons are completed;
\* a folder without lessons is never shown complete.
C10_FullyCompleteIff ==
    /\ result.op = "allCompleted" => (result.value <=> FullyComplete(result.node))
    /\ result.op = "subCourses" =>
            \A s \in 1..Len(result.value) :
                LET sub == result.value[s]
                IN  /\ \A k \in FolderEntriesOf(sub) :
                            \E f \in Nodes \ {0} :
                                /\ tree.parent[f] = sub.node
                                /\ NodeName(f) = sub.lessons[k].displayName
                                /\ sub.lessons[k].completed <=> FullyComplete(f)
                    /\ \A f \in Nodes \ {0} :
                            (tree.parent[f] = sub.node /\ SubtreeLessons(f) = {}) =>
                                ~\E k \in FolderEntriesOf(sub) :
                                    /\ sub.lessons[k].displayName = NodeName(f)
                                    /\ sub.lessons[k].completed

C10_Witness ==
    /\ result.op = "subCourses"
    /\ \E s \in 1..Len(result.value) :
        LET sub == result.value[s]
        IN  /\ \E k \in FolderEntriesOf(sub) : sub.lessons[k].completed
            /\ sub.totalLessons >= 2
            /\ \E f \in Nodes \ {0} : tree.parent[f] = sub.node /\ SubtreeLessons(f) = {}

----------------------------------------------------------------------------
(* Claims about the comparator (SpecCompare).                              *)

Compared == cmp # <<>>

Sign(x) == IF x < 0 THEN -1 ELSE IF x > 0 THEN 1 ELSE 0

Numbered(name) == name # <<>> /\ Head(name) \in Digits

RECURSIVE PowerOfTen(_)
PowerOfTen(k) == IF k = 0 THEN 1 ELSE 10 * PowerOfTen(k - 1)

\* the number a run of decimal digits denotes
RECURSIVE ValueOfDigits(_)
ValueOfDigits(ds) ==
    IF ds = <<>> THEN 0
    ELSE DigitValue(Head(ds)) * PowerOfTen(Len(ds) - 1) + ValueOfDigits(Tail(ds))

PrefixValue(name) == ValueOfDigits(LeadingDigits(name))

C12_UnnumberedLast ==
    (Compared /\ Numbered(names.a) /\ ~Numbered(names.b)) => cmp.ab < 0

\* code unit of a character (UTF-16)
CodeUnit(ch) ==
    IF ch = " " THEN 32
    ELSE IF ch \in Digits THEN 48 + DigitValue(ch)
    ELSE IF InSeq(Capitals, ch) THEN 64 + IndexIn(Capitals, ch)
    ELSE IF ch = "_" THEN 95
    ELSE IF InSeq(Letters, ch) THEN 96 + IndexIn(Letters, ch)
    ELSE IF ch = AcuteE THEN 233
    ELSE 769

\* case-sensitive lexicographic comparison: code unit by code unit
LexicographicCompare(a, b) ==
    KeyCompare([i \in 1..Len(a) |-> CodeUnit(a[i])], [i \in 1..Len(b) |-> CodeUnit(b[i])])

SamePrefix(a, b) ==
    \/ Numbered(a) /\ Numbered(b) /\ PrefixValue(a) = PrefixValue(b)
    \/ ~Numbered(a) /\ ~Numbered(b)

\* C13: names with equal numeric prefixes, or both without one, are ordered
\* by case-sensitive lexicographic comparison of the full names.
C13_TieBreakLexicographic ==
    (Compared /\ SamePrefix(names.a, names.b))
    => Sign(cmp.ab) = LexicographicCompare(names.a, names.b)

----------------------------------------------------------------------------
(* Claims about ordering and decomposition (SpecOrder).                    *)

ChildSet(n) == {c \in Nodes \ {0} : tree.parent[c] = n}

DirectLessons(n) == {i \in 1..Len(tree.lessons) : tree.lessons[i].folder = n}

Arranges(seq, S) == Len(seq) = Cardinality(S) /\ Range(seq) = S

InComparatorOrder(ns) ==
    \A i \in 1..(Len(ns) - 1) : NaturalCompare(ns[i], ns[i + 1]) <= 0

NamesOf(nodes) == [k \in 1..Len(nodes) |-> NodeName(nodes[k])]

TitlesOf(ls) == [k \in 1..Len(ls) |-> tree.lessons[ls[k]].title]

\* C15: every view shows the child directories of a node, the lessons directly
\* inside it, and the sub-courses at the root, each in comparator order,
\* whatever order the tree lists them in.
C15_EveryLevelInComparatorOrder ==
    /\ result.op \in {"treeNode", "sidebarNode"} =>
            /\ Arranges(result.value.children, ChildSet(result.node))
            /\ InComparatorOrder(NamesOf(result.value.children))
            /\ Arranges(result.value.lessons, DirectLessons(result.node))
            /\ InComparatorOrder(TitlesOf(result.value.lessons))
    /\ result.op = "subCourses" =>
            /\ Len(result.value) = Cardinality(ChildSet(0))
            /\ InComparatorOrder([k \in 1..Len(result.value) |-> result.value[k].name])
            /\ \A k \in 1..Len(result.value) :
                    ChildSet(result.value[k].node) = {} =>
                        InComparatorOrder([j \in 1..Len(result.value[k].lessons) |->
                                            result.value[k].lessons[j].title])

\* the lessons of n depth first: its own lessons as listed, then the lessons
\* of each child, the children taken in comparator order of their names
RECURSIVE DepthFirstByName(_)
DepthFirstByName(n) ==
    LET kids == SortNodes(ChildrenOf(n))
    IN  LessonsOf(n) \o Flatten([k \in 1..Len(kids) |-> DepthFirstByName(kids[k])])

\* C16: the flattened lesson list of a node holds each lesson of the subtree
\* exactly once, the node's own lessons first, then the lessons of each child,
\* the children visited in comparator order of their names.
C16_FlattenedDepthFirstInOrder ==
    result.op = "allLessons" =>
        /\ Arranges(result.value.dashboard, SubtreeLessons(result.node))
        /\ Arranges(result.value.sidebar, SubtreeLessons(result.node))
        /\ result.value.dashboard = DepthFirstByName(result.node)
        /\ result.value.sidebar = DepthFirstByName(result.node)

\* C17: a sub-course with at least one child folder gets one display entry
\* per child folder, in comparator order of the folder names, labelled with
\* the folder's name; a child folder without lessons has an entry too, not
\* completed.
C17_OneEntryPerChildFolder ==
    result.op = "subCourses" =>
        \A s \in 1..Len(result.value) :
            LET sub == result.value[s]
                kids == SortNodes(ChildrenOf(sub.node))
            IN  kids # <<>> =>
                    /\ Len(sub.lessons) = Len(kids)
                    /\ \A k \in 1..Len(kids) :
                            /\ sub.lessons[k].displayName = NodeName(kids[k])
                            /\ SubtreeLessons(kids[k]) = {} => ~sub.lessons[k].completed

\* C18: the display list of a sub-course is its own direct lesson list,
\* content and order unchanged, exactly when it has no child folders; with
\* any child folder no entry of the list is a direct lesson.
C18_FallbackOnlyWithoutChildFolders ==
    result.op = "subCourses" =>
        \A s \in 1..Len(result.value) :
            LET sub == result.value[s]
            IN  /\ ChildSet(sub.node) = {} =>
                        sub.lessons = [k \in 1..Len(LessonsOf(sub.node)) |->
                                            LessonItemOf(LessonsOf(sub.node)[k])]
                /\ ChildSet(sub.node) # {} =>
                        \A k \in 1..Len(sub.lessons) :
                            sub.lessons[k].displayName # Undefined

\* the lessons of n depth first in comparator order at every level
RECURSIVE DepthFirstSorted(_)
DepthFirstSorted(n) ==
    LET kids == SortNodes(ChildrenOf(n))
    IN  SortLessons(LessonsOf(n))
            \o Flatten([k \in 1..Len(kids) |-> DepthFirstSorted(kids[k])])

FirstOf(ls, S) == ls[CHOOSE k \in 1..Len(ls) : ls[k] \in S /\ \A j \in 1..(k - 1) : ls[j] \notin S]

LeastTitled(S) ==
    {i \in S : \A j \in S : NaturalCompare(tree.lessons[i].title, tree.lessons[j].title) <= 0}

\* the lessons that can be called the representative of folder f: the first
\* video, else the first lesson, "first" read as first of the depth-first
\* comparator order or as least title
Representatives(f) ==
    LET all == SubtreeLessons(f)
        videos == {i \in all : tree.lessons[i].lesson_type = "video"}
        pool == IF videos # {} THEN videos ELSE all
    IN  {FirstOf(DepthFirstSorted(f), pool)} \cup LeastTitled(pool)

FolderNamed(parent, name) == CHOOSE f \in ChildSet(parent) : NodeName(f) = name

\* C19: the navigation target of the display entry of a child folder is the
\* canonical key of the folder's representative lesson: the first video of
\* the subtree if there is one, else the first lesson in comparator order.
C19_TargetIsRepresentative ==
    result.op = "subCourses" =>
        \A s \in 1..Len(result.value) :
            \A k \in FolderEntriesOf(result.value[s]) :
                LET e == result.value[s].lessons[k]
                    f == FolderNamed(result.value[s].node, e.displayName)
                IN  navigateToLessonKey(e.path, e.title, TreeCoursePath)
                        \in {CanonicalKeyOf(r) : r \in Representatives(f)}

TypesIn(f) == {tree.lessons[i].lesson_type : i \in SubtreeLessons(f)}

\* C20: the lessonType of the display entry of a child folder is video if a
\* lesson of the folder's subtree is video, else audio if one is audio, else
\* quiz if one is quiz, else text.
C20_LessonTypeByPriority ==
    result.op = "subCourses" =>
        \A s \in 1..Len(result.value) :
            \A k \in FolderEntriesOf(result.value[s]) :
                LET e == result.value[s].lessons[k]
                    f == FolderNamed(result.value[s].node, e.displayName)
                IN  e.lesson_type =
                        IF "video" \in TypesIn(f) THEN "video"
                        ELSE IF "audio" \in TypesIn(f) THEN "audio"
                        ELSE IF "quiz" \in TypesIn(f) THEN "quiz"
                        ELSE "text"

\* a folder holding only 'mixed' lessons is shown as text, next to a folder
\* whose quiz lesson decides its type
C20_Witness ==
    /\ result.op = "subCourses"
    /\ \E s \in 1..Len(result.value) :
            \E k, j \in FolderEntriesOf(result.value[s]) :
                LET sub == result.value[s]
                IN  /\ TypesIn(FolderNamed(sub.node, sub.lessons[k].displayName)) = {"mixed"}
                    /\ sub.lessons[k].lesson_type = "text"
                    /\ TypesIn(FolderNamed(sub.node, sub.lessons[j].displayName)) = {"quiz"}
                    /\ sub.lessons[j].lesson_type = "quiz"

RECURSIVE SumOver(_, _)
SumOver(subs, field) ==
    IF subs = <<>> THEN 0 ELSE Head(subs)[field] + SumOver(Tail(subs), field)

\* C21: the totalLessons, completedLessons and progress of a sub-course count
\* the whole subtree of that child of the root, its own direct lessons
\* included, whatever its display list holds; the sub-course totals and the
\* root's direct lessons add up to the totals of the whole tree.
C21_SubCourseTotalsOverSubtree ==
    result.op = "subCourses" =>
        /\ \A k \in 1..Len(result.value) :
                LET sub == result.value[k]
                IN  /\ sub.totalLessons = Cardinality(SubtreeLessons(sub.node))
                    /\ sub.completedLessons = Cardinality(CompletedIn(SubtreeLessons(sub.node)))
                    /\ PercentageIs(sub.progress, sub.completedLessons, sub.totalLessons)
        /\ SumOver(result.value, "totalLessons") + Cardinality(DirectLessons(0))
                = Len(tree.lessons)
        /\ SumOver(result.value, "completedLessons")
                + Cardinality(CompletedIn(DirectLessons(0)))
                = Cardinality(CompletedIn(1..Len(tree.lessons)))

\* a sub-course with a direct lesson and a lesson in a child folder: two
\* lessons counted, one display entry; a lesson of the root belongs to none
C21_Witness ==
    /\ result.op = "subCourses"
    /\ DirectLessons(0) # {}
    /\ \E k \in 1..Len(result.value) :
            LET sub == result.value[k]
            IN  /\ DirectLessons(sub.node) # {}
                /\ sub.totalLessons = 2 /\ sub.completedLessons = 1
                /\ Len(sub.lessons) = 1
                /\ sub.lessons[1].displayName # Undefined

\* C22: extractSubCourses returns one entry per direct child of the root, in
\* comparator order of the children's names, whatever order the root lists
\* its children in.
C22_SubCoursesInComparatorOrder ==
    result.op = "subCourses" =>
        /\ Arranges([k \in 1..Len(result.value) |-> result.value[k].node], ChildSet(0))
        /\ \A k \in 1..Len(result.value) :
                result.value[k].name = NodeName(result.value[k].node)
        /\ InComparatorOrder([k \in 1..Len(result.value) |-> result.value[k].name])

\* three sub-courses returned in the reverse of the order the root lists them
C22_Witness ==
    /\ result.op = "subCourses"
    /\ Len(result.value) = 3
    /\ \A k \in 1..2 : result.value[k].node > result.value[k + 1].node

----------------------------------------------------------------------------
(* Claims about the lesson view (Spec).                                    *)

Settled(t) == tasks[t].pc \in {"done", "rejected"}

Quiescent == \A t \in TaskIds : Settled(t)

DisplayMatchesStore ==
    /\ \A i \in 1..Len(tree.lessons) :
            tree.lessons[i].completed = RecordOf(store, StoredKeyOf(i)).completed
    /\ stats = courseInfo(store).stats

\* C5: after a mark-all batch of which the store kept only some writes, once
\* the batch and its refreshes have finished, the displayed flags and totals
\* are those of the store: the acknowledged lessons changed, the others as
\* before.  (Stated for a batch that is the only thing that ran, and whose
\* refreshes were all answered.)
C5_DisplayShowsAcknowledged ==
    \A b \in 1..Len(batches) :
        ( /\ Quiescent
          /\ BatchTasks(b) = TaskIds
          /\ \E t \in BatchTasks(b) : tasks[t].persisted
          /\ \E t \in BatchTasks(b) : ~tasks[t].persisted
          /\ \A t \in BatchTasks(b) : tasks[t].pc = "done" /\ tasks[t].data # Null )
        => DisplayMatchesStore

\* C6: the writes of a mark-all batch are issued together: as soon as the
\* batch exists, there is one issued write per lesson of the folder's subtree,
\* in the order of the keys, and none waits for another write's
\* acknowledgement or refresh.
C6_AllWritesIssuedAtOnce ==
    \A b \in 1..Len(batches) :
        LET ks == batches[b].keys
        IN  /\ Len(ks) = Cardinality(SubtreeLessons(batches[b].node))
            /\ Cardinality(BatchTasks(b)) = Len(ks)
            /\ \A k \in 1..Len(ks) :
                    \E t \in BatchTasks(b) :
                        /\ tasks[t].lesson_path = ks[k]
                        /\ tasks[t].completed = batches[b].completed
                        /\ tasks[t].pc # "queued"
                        /\ Cardinality({u \in BatchTasks(b) : u < t}) = k - 1

\* the write issued second reached the store while the first is still on its way
C6_Witness ==
    \E b \in 1..Len(batches) :
        /\ Len(batches[b].keys) >= 2
        /\ \E t, u \in BatchTasks(b) :
                /\ t < u
                /\ tasks[t].pc = "posting"
                /\ tasks[u].pc = "posted" /\ tasks[u].persisted

FailedKeys(b) ==
    {tasks[t].lesson_path : t \in {u \in BatchTasks(b) : Settled(u) /\ ~tasks[u].persisted}}

\* C7: when writes of a mark-all batch fail to persist, the caller is told
\* which keys failed, and no write is issued twice.
C7_FailedKeysReported ==
    \A b \in 1..Len(batches) :
        /\ (\A t \in BatchTasks(b) : Settled(t)) =>
                batchOutcome(b).failedKeys = FailedKeys(b)
        /\ Cardinality(BatchTasks(b)) = Len(batches[b].keys)

\* C8: every write made from the lesson view is followed by a re-fetch of the
\* course info.
C8_EveryWriteRefetches ==
    \A t \in TaskIds : tasks[t].pc = "done" => tasks[t].fetched

ExplicitMarks == {"toggle", "ended", "mark"}

\* write u marked the lesson of write t complete, and no explicit mark of that
\* lesson was issued between the two
MarkedCompleteBefore(t) ==
    \E u \in TaskIds :
        /\ u < t
        /\ tasks[u].op \in ExplicitMarks
        /\ tasks[u].lesson_path = tasks[t].lesson_path
        /\ tasks[u].completed
        /\ \A v \in TaskIds :
                (u < v /\ v < t /\ tasks[v].lesson_path = tasks[t].lesson_path)
                    => tasks[v].op \notin ExplicitMarks

\* C26: once a lesson has been marked complete (toggleCompletion, handleEnded
\* or the sidebar), no progress save issued by handleTimeUpdate carries
\* completed = false for it.
C26_PlaybackSaveKeepsCompleted ==
    \A t \in TaskIds :
        (tasks[t].op = "timeupdate" /\ MarkedCompleteBefore(t)) => tasks[t].completed

\* C27: after a mark-all batch on a folder whose writes were all kept by the
\* store, once every refresh of the batch has been answered and applied, the
\* displayed tree shows every lesson of the batch with the batch's value and
\* the displayed stats are those of the store, whatever the order of the
\* acknowledgements and responses.  (Stated for a batch that is the only thing
\* that ran.)
C27_BatchShownAfterAllRefreshes ==
    \A b \in 1..Len(batches) :
        ( /\ BatchTasks(b) = TaskIds
          /\ \A t \in BatchTasks(b) :
                tasks[t].pc = "done" /\ tasks[t].persisted /\ tasks[t].data # Null )
        => /\ \A i \in 1..Len(tree.lessons) :
                InSeq(batches[b].keys, StoredKeyOf(i))
                    => tree.lessons[i].completed = batches[b].completed
           /\ stats = courseInfo(store).stats

\* C28: whenever no write or refresh is in flight, the header indicator
\* isCompleted equals the completed flag the displayed tree holds for the
\* lesson shown.  (Stated for runs of toggleCompletion, handleEnded and sidebar
\* marks in which every write was kept and every refresh answered.)
C28_IndicatorMatchesTree ==
    ( /\ Quiescent
      /\ \A t \in TaskIds :
            /\ tasks[t].op \in ExplicitMarks
            /\ tasks[t].pc = "done" /\ tasks[t].persisted
            /\ tasks[t].refresh => tasks[t].data # Null )
    => \A i \in CurrentLessons : isCompleted = tree.lessons[i].completed

\* C29: a write issued by a sidebar mark changes nothing in the store but the
\* completed value of its own lesson: that lesson's progress_seconds and every
\* other record stay as they were.
C29_SidebarMarkChangesOnlyCompleted ==
    [][ \A t \in TaskIds :
            ( /\ tasks[t].op = "mark"
              /\ tasks[t].pc = "posting"
              /\ t \in DOMAIN tasks' /\ tasks'[t].persisted )
            => \A k \in DOMAIN store' :
                    /\ RecordOf(store', k).progress_seconds
                            = RecordOf(store, k).progress_seconds
                    /\ k # tasks[t].lesson_path
                            => RecordOf(store', k) = RecordOf(store, k) ]_vars

----------------------------------------------------------------------------
(* Claims about loading a course (SpecApp).                                *)

\* the loader answered success = false, or the request threw
FailedLoad(l) == loads[l].answer \in {"refused", "threw"}

\* C24: a load that fails is treated as no course loaded: the step in which
\* the failed call returns to its caller leaves the view, the stored load mode,
\* the lesson route and the last aggregation as they are and does not call
\* onCourseSelected; and the application shows a dashboard, or has aggregated
\* a tree, only if the start-up check found a course or some load that did not
\* fail selected one.
C24_FailedLoadStaysInLibrary ==
    /\ [][ \A l \in DOMAIN loads :
                ( /\ FailedLoad(l)
                  /\ loads[l].pc = "answered"
                  /\ loads'[l].pc = "done" )
                => /\ app' = app
                   /\ ~loads'[l].selected
                   /\ result' = result
                   /\ lessonPath' = lessonPath ]_vars
    /\ []( (app.view \in Dashboards \/ result.op = "dashboard")
            => \/ app.found
               \/ \E l \in DOMAIN loads : loads[l].selected /\ ~FailedLoad(l) )

\* a load from the folder browser was refused and a load from a library card
\* threw; both have returned and the library is still shown
C24_Witness ==
    /\ app.view = "library" /\ ~app.checkingCourse /\ ~app.found
    /\ result.op = "none"
    /\ \E l, k \in DOMAIN loads :
            /\ loads[l].origin = "browser" /\ loads[l].answer = "refused"
            /\ loads[l].pc = "done" /\ loads[l].alerted
            /\ loads[k].origin = "item" /\ loads[k].answer = "threw"
            /\ loads[k].pc = "done"

\* C25: in the lesson view of a course loaded in 'course' mode the sidebar
\* shows the course root with the whole-course stats, whatever the depth of
\* the lesson shown.
C25_CourseModeShowsWholeCourse ==
    ( /\ ~app.checkingCourse
      /\ app.view = "course" /\ app.load_mode = "course"
      /\ lessonPath # <<>> )
    => /\ activeSubCourse = 0
       /\ sidebarStats = stats

\* the loads started from the folder browser now mounted that have not returned
PendingFromBrowser ==
    {l \in DOMAIN loads :
        loads[l].origin = "browser" /\ ~loads[l].orphan /\ loads[l].pc # "done"}

\* a load started from the folder browser now mounted has returned without
\* selecting a course
FailedFromBrowser ==
    \E l \in DOMAIN loads :
        /\ loads[l].origin = "browser" /\ ~loads[l].orphan
        /\ loads[l].pc = "done" /\ ~loads[l].selected

\* C30: the folder browser has at most one load pending, and once a load
\* attempt has failed and none is pending, the load buttons of the open
\* browser are enabled again on a selectable folder.
C30_OneLoadAndRetry ==
    /\ Cardinality(PendingFromBrowser) <= 1
    /\ ( /\ LibraryMounted /\ library.browserOpen
         /\ canSelect
         /\ FailedFromBrowser
         /\ PendingFromBrowser = {} )
       => ~ButtonsDisabled

====
